---- MODULE Spec2Model ----
(***************************************************************************)
(* A model of bapple_player: the driver in src/src/main.rs and the player  *)
(* Bapple of src/src/primitives.rs (new, play, get_pos, set_frametime,     *)
(* backup_resync, Drop), together with the two tasks that run beside the   *)
(* render loop: the Ctrl-C handler and the fallback clock outside_counter. *)
(* Time is abstracted: sleeps are scheduling points, so the render loop,   *)
(* the clock, the audio device and Ctrl-C interleave in every order.       *)
(***************************************************************************)
EXTENDS Integers, Sequences, FiniteSets, TLC

(***************************************************************************)
(* Bounds of the model.                                                    *)
(***************************************************************************)
MaxLen == 17        \* the longest Frame Store
MaxDisplays == 19   \* frame writes of one pass are counted up to here (a resync can repeat frames)
MaxPasses == 2      \* passes of the loop of main are told apart up to here
MaxTotal == 4       \* the longest audio track, in position ticks
MaxEntries == 3     \* the longest archive of the loading specification

(***************************************************************************)
(* Program constants.                                                      *)
(***************************************************************************)
ResyncInterval == 15
MicrosPerSecond == 1000000

(***************************************************************************)
(* Inputs: the archive (a sequence of entries) and the command line.       *)
(* An entry is a record: its name stem, and what its content decodes to --  *)
(* for a metadata entry the two fields of Metadata, for the audio entry    *)
(* the track's total duration in ticks, for a frame its payload.           *)
(***************************************************************************)
FrameEntry(i) == [stem |-> "frame", content |-> i, frametime |-> 0, fps |-> 0]

AudioEntry(t) == [stem |-> "audio", content |-> t, frametime |-> 0, fps |-> 0]

MetadataEntry(ft, fps) == [stem |-> "metadata", content |-> 0, frametime |-> ft, fps |-> fps]

Frames(n) == [i \in 1..n |-> FrameEntry(i)]

Lengths == {0, 1, 2, MaxLen}

Totals == {1, MaxTotal}

\* Metadata records of the playback specification: (frametime, fps).
Metas == {<<33333, 0>>, <<0, 0>>}

ArchivesOf(lens) ==
    { <<MetadataEntry(m[1], m[2])>> \o Frames(n) : m \in Metas, n \in lens }
    \cup { <<MetadataEntry(33333, 0), AudioEntry(t)>> \o Frames(n) :
             t \in Totals, n \in lens }

Archives == ArchivesOf(Lengths)

\* The archives every command line is tried on.
ShortArchives == ArchivesOf({n \in Lengths : n <= 2})

\* Command lines: frames_per_second (0 = autodetect) and the loop flag.
FpsArgs == {-1, 0, 3, 10, 2 * MicrosPerSecond}

ArgsSet == [frames_per_second : FpsArgs, loop : BOOLEAN]

\* Command lines that leave the frame rate to the metadata.
AutoArgs == {a \in ArgsSet : a.frames_per_second = 0}

\* The loading specification: every archive of up to MaxEntries entries, in every
\* order, played once.
LoadEntries ==
    {FrameEntry(1), FrameEntry(2), AudioEntry(1),
     MetadataEntry(0, 0), MetadataEntry(0, 7), MetadataEntry(40000, 7)}

LoadArchives == UNION {[1..n -> LoadEntries] : n \in 0..MaxEntries}

LoadArgs == {a \in ArgsSet : ~a.loop /\ a.frames_per_second \in {-1, 0}}

VARIABLES
    archive,            \* the container given on the command line
    args,               \* Args: frames_per_second, loop
    pc,                 \* position of the main thread
    compressed_frames,  \* Bapple.compressed_frames
    audio,              \* Bapple.audio, as the track's total duration (0 = empty)
    has_audio,          \* Bapple.has_audio
    frametime,          \* Bapple.frametime, microseconds
    counter,            \* Bapple.counter
    length,             \* Bapple.length
    SYNC_COUNTER,       \* backup_counter::SYNC_COUNTER
    STOP,               \* main.rs STOP
    clocks,             \* live outside_counter threads, named by the pass that spawned them
    sink,               \* TRUE while the pass holds a playing Sink
    position,           \* the playback position the Sink reports, in ticks
    cursor,             \* the terminal cursor: "visible" or "hidden"
    result,             \* how the process or the last pass ended
    exitStatus,         \* the process exit status, -1 while running
    passes,             \* passes started so far
    displays,           \* frame writes of the current (or last) pass
    frame,              \* the index of the frame written last
    sinceStop,          \* frame writes since STOP was set
    reads,              \* what the render loop has read since it wrote that frame
    lastTick            \* the clock that wrote SYNC_COUNTER last (0 = none since the reset)

vars == <<archive, args, pc, compressed_frames, audio, has_audio, frametime, counter,
          length, SYNC_COUNTER, STOP, clocks, sink, position, cursor, result,
          exitStatus, passes, displays, frame, sinceStop, reads, lastTick>>

inputs == <<archive, args>>

bapple == <<compressed_frames, audio, has_audio, frametime, length>>

history == <<displays, frame, sinceStop, reads>>

(***************************************************************************)
(* Terminal escape sequences (write_fn!).                                  *)
(***************************************************************************)
show_cursor(c) == "visible"

hide_cursor(c) == "hidden"

\* Drop without the restoring write.
DropBapple_Forget(c) == c

\* impl Drop for Bapple
DropBapple(c) == show_cursor(c)

(***************************************************************************)
(* Bapple::process_frames folded over the archive by Bapple::new.          *)
(***************************************************************************)
\* The deprecated fps field read before frametime.
process_frametime_FpsFirst(e, outer) ==
    IF e.stem = "metadata"
    THEN IF e.fps # 0 THEN MicrosPerSecond \div e.fps
         ELSE IF e.frametime # 0 THEN e.frametime
         ELSE outer
    ELSE outer

\* The frametime an entry leaves behind, given the one before it.
process_frametime(e, outer) ==
    IF e.stem = "metadata"
    THEN IF e.frametime # 0 THEN e.frametime
         ELSE IF e.fps # 0 THEN MicrosPerSecond \div e.fps
         ELSE outer
    ELSE outer

\* Only the audio entry kept out of the Frame Store.
process_frames_MetaLeak(e) ==
    IF e.stem = "audio" THEN <<>> ELSE <<e.content>>

\* The payload an entry contributes to the Frame Store (<<>> = None).
process_frames(e) ==
    IF e.stem = "audio" \/ e.stem = "metadata" THEN <<>> ELSE <<e.content>>

RECURSIVE NewFrames(_)
NewFrames(s) ==
    IF s = <<>> THEN <<>> ELSE process_frames(Head(s)) \o NewFrames(Tail(s))

RECURSIVE NewFrametime(_, _)
NewFrametime(s, outer) ==
    IF s = <<>> THEN outer
    ELSE NewFrametime(Tail(s), process_frametime(Head(s), outer))

RECURSIVE NewAudio(_, _)
NewAudio(s, a) ==
    IF s = <<>> THEN a
    ELSE NewAudio(Tail(s), IF Head(s).stem = "audio" THEN Head(s).content ELSE a)

NewHasAudio(s) == \E i \in 1..Len(s) : s[i].stem = "audio"

(***************************************************************************)
(* Pure functions of Bapple.                                               *)
(***************************************************************************)
\* set_frametime: the f64 argument num/den cast to u64 (truncation).
set_frametime(num, den) == num \div den

\* get_pos without the rounding: the cast alone truncates.
get_pos_Trunc(pos, total, len) == (pos * len) \div total

\* get_pos: (position / total * length).round() as usize; round is half away from zero.
get_pos(pos, total, len) == (2 * pos * len + total) \div (2 * total)

\* A resync every second interval only.
is_multiple_of_Double(c, k) == c % (2 * k) = 0

is_multiple_of(c, k) == c % k = 0

\* validate_fps on a whole number: rejected when fps != 0.0 && fps < 0.01.
validate_fps(fps) == ~(fps # 0 /\ 100 * fps < 1)

(***************************************************************************)
(* The state after the process starts, before main runs.                   *)
(***************************************************************************)
InitWith(archs, argset) ==
    /\ archive \in archs
    /\ args \in argset
    /\ pc = "main"
    /\ compressed_frames = <<>>
    /\ audio = 0
    /\ has_audio = FALSE
    /\ frametime = 0
    /\ counter = 0
    /\ length = 0
    /\ SYNC_COUNTER = 0
    /\ STOP = FALSE
    /\ clocks = {}
    /\ sink = FALSE
    /\ position = 0
    /\ cursor = "visible"
    /\ result = "running"
    /\ exitStatus = -1
    /\ passes = 0
    /\ displays = 0
    /\ frame = 0
    /\ sinceStop = 0
    /\ reads = {}
    /\ lastTick = 0

Init == InitWith(Archives, AutoArgs) \/ InitWith(ShortArchives, ArgsSet)

(***************************************************************************)
(* How the process ends.                                                   *)
(***************************************************************************)
\* An error of a pass swallowed by a looping driver, which plays again.
MainErr_Retry(msg, built) ==
    /\ result' = msg
    /\ sink' = FALSE
    /\ IF args.loop /\ built
       THEN pc' = "play" /\ exitStatus' = exitStatus /\ cursor' = cursor
       ELSE /\ pc' = "exited"
            /\ exitStatus' = 1
            /\ cursor' = IF built THEN show_cursor(cursor) ELSE cursor

\* main returns Err through `?`: bapple (if built) is dropped, the status is 1.
MainErr(msg, built) ==
    /\ pc' = "exited"
    /\ result' = msg
    /\ exitStatus' = 1
    /\ cursor' = IF built THEN DropBapple(cursor) ELSE cursor
    /\ sink' = FALSE

\* process::exit(1): no destructor runs.
ProcessExit(msg) ==
    /\ pc' = "exited"
    /\ result' = msg
    /\ exitStatus' = 1
    /\ UNCHANGED <<cursor, sink>>

(***************************************************************************)
(* main                                                                    *)
(***************************************************************************)
\* main.rs 17-20: set the handler, parse the arguments, Bapple::new.
New ==
    /\ pc = "main"
    /\ validate_fps(args.frames_per_second)
    /\ pc' = "args"
    /\ compressed_frames' = NewFrames(archive)
    /\ audio' = NewAudio(archive, 0)
    /\ has_audio' = NewHasAudio(archive)
    /\ frametime' = NewFrametime(archive, 0)
    /\ length' = Len(NewFrames(archive))
    /\ counter' = 0
    /\ UNCHANGED <<inputs, SYNC_COUNTER, STOP, clocks, sink, position, cursor, result,
                   exitStatus, passes, history, lastTick>>

\* main.rs 18: Args::parse rejects the frame rate; clap reports it and exits with 2.
ArgsRejected ==
    /\ pc = "main"
    /\ ~validate_fps(args.frames_per_second)
    /\ pc' = "exited"
    /\ result' = "UsageError"
    /\ exitStatus' = 2
    /\ UNCHANGED <<inputs, bapple, counter, SYNC_COUNTER, STOP, clocks, sink, position,
                   cursor, passes, history, lastTick>>

\* main.rs 20: File::open or entries() fails.
NewFails ==
    /\ pc = "main"
    /\ validate_fps(args.frames_per_second)
    /\ MainErr("OpenError", FALSE)
    /\ UNCHANGED <<inputs, bapple, counter, SYNC_COUNTER, STOP, clocks, position,
                   passes, history, lastTick>>

\* The override applied only where the metadata gave no frametime.
ApplyArgs_MetaFirst ==
    /\ pc = "args"
    /\ pc' = "play"
    /\ frametime' = IF args.frames_per_second # 0 /\ frametime = 0
                    THEN MicrosPerSecond \div args.frames_per_second
                    ELSE frametime
    /\ UNCHANGED <<inputs, compressed_frames, audio, has_audio, length, counter,
                   SYNC_COUNTER, STOP, clocks, sink, position, cursor, result,
                   exitStatus, passes, history, lastTick>>

\* main.rs 22-24
ApplyArgs ==
    /\ pc = "args"
    /\ pc' = "play"
    /\ frametime' = IF args.frames_per_second # 0
                    THEN set_frametime(MicrosPerSecond, args.frames_per_second)
                    ELSE frametime
    /\ UNCHANGED <<inputs, compressed_frames, audio, has_audio, length, counter,
                   SYNC_COUNTER, STOP, clocks, sink, position, cursor, result,
                   exitStatus, passes, history, lastTick>>

\* main.rs 35-37, run by the signal thread
ctrl_c ==
    /\ pc # "exited"
    /\ STOP' = TRUE
    /\ UNCHANGED <<inputs, pc, bapple, counter, SYNC_COUNTER, clocks, sink, position,
                   cursor, result, exitStatus, passes, history, lastTick>>

(***************************************************************************)
(* Bapple::play, up to the render loop.                                    *)
(***************************************************************************)
PlayEntry == pc = "play"

\* The ordinal of the pass about to start; passes beyond MaxPasses share the last one.
NextPass == IF passes < MaxPasses THEN passes + 1 ELSE passes

\* play without the frametime check: the pass starts with a zero frametime.
PlayFrametimeZero_Unchecked ==
    /\ pc = "play"
    /\ frametime = 0
    /\ pc' = "loop"
    /\ passes' = IF passes < MaxPasses THEN passes + 1 ELSE passes
    /\ clocks' = IF has_audio THEN clocks ELSE clocks \cup {passes'}
    /\ sink' = has_audio
    /\ cursor' = "hidden"
    /\ displays' = 0
    /\ reads' = {}
    /\ UNCHANGED <<inputs, bapple, counter, SYNC_COUNTER, STOP, position, result,
                   exitStatus, frame, sinceStop, lastTick>>

\* primitives.rs 72-75
PlayFrametimeZero ==
    /\ PlayEntry
    /\ frametime = 0
    /\ ProcessExit("FrametimeZero")
    /\ UNCHANGED <<inputs, bapple, counter, SYNC_COUNTER, STOP, clocks, position,
                   passes, history, lastTick>>

\* primitives.rs 86: no output stream.
PlayStreamError ==
    /\ PlayEntry
    /\ frametime # 0
    /\ MainErr("StreamError", TRUE)
    /\ UNCHANGED <<inputs, bapple, counter, SYNC_COUNTER, STOP, clocks, position,
                   passes, history, lastTick>>

\* primitives.rs 89-95: the track does not decode, or has no known duration.
PlayAudioError ==
    /\ PlayEntry
    /\ frametime # 0
    /\ has_audio
    /\ MainErr("AudioError", TRUE)
    /\ UNCHANGED <<inputs, bapple, counter, SYNC_COUNTER, STOP, clocks, position,
                   passes, history, lastTick>>

\* A clock spawned for every pass, with or without audio.
PlayStart_AlwaysClock ==
    /\ pc = "play"
    /\ frametime # 0
    /\ pc' = "loop"
    /\ passes' = IF passes < MaxPasses THEN passes + 1 ELSE passes
    /\ sink' = has_audio
    /\ position' = IF has_audio THEN 0 ELSE position
    /\ clocks' = clocks \cup {passes'}
    /\ cursor' = "hidden"
    /\ displays' = 0
    /\ reads' = {}
    /\ UNCHANGED <<inputs, bapple, counter, SYNC_COUNTER, STOP, result, exitStatus,
                   frame, sinceStop, lastTick>>

\* primitives.rs 82-115: start the sink or spawn the clock, clear, hide the cursor.
PlayStart ==
    /\ PlayEntry
    /\ frametime # 0
    /\ pc' = "loop"
    /\ passes' = NextPass
    /\ IF has_audio
       THEN /\ sink' = TRUE
            /\ position' = 0
            /\ clocks' = clocks
       ELSE /\ clocks' = clocks \cup {NextPass}
            /\ UNCHANGED <<sink, position>>
    /\ cursor' = hide_cursor(cursor)
    /\ displays' = 0
    /\ reads' = {}
    /\ UNCHANGED <<inputs, bapple, counter, SYNC_COUNTER, STOP, result, exitStatus,
                   frame, sinceStop, lastTick>>

(***************************************************************************)
(* The render loop, primitives.rs 117-147.                                 *)
(***************************************************************************)
\* The loop test off by one: counter <= length.
Display_OffByOne ==
    /\ pc = "loop"
    /\ counter <= length
    /\ pc' = "advance"
    /\ frame' = counter
    /\ displays' = IF displays < MaxDisplays THEN displays + 1 ELSE displays
    /\ sinceStop' = IF STOP THEN sinceStop + 1 ELSE sinceStop
    /\ reads' = {}
    /\ UNCHANGED <<inputs, bapple, counter, SYNC_COUNTER, STOP, clocks, sink, position,
                   cursor, result, exitStatus, passes, lastTick>>

\* 117-124: the loop test holds; decode the frame and write it.
Display ==
    /\ pc = "loop"
    /\ counter < length
    /\ pc' = "advance"
    /\ frame' = counter
    /\ displays' = IF displays < MaxDisplays THEN displays + 1 ELSE displays
    /\ sinceStop' = IF STOP THEN sinceStop + 1 ELSE sinceStop
    /\ reads' = {}
    /\ UNCHANGED <<inputs, bapple, counter, SYNC_COUNTER, STOP, clocks, sink, position,
                   cursor, result, exitStatus, passes, lastTick>>

\* 119-120: decode_all fails (or a write fails): play returns Err.
DisplayFails ==
    /\ pc = "loop"
    /\ counter < length
    /\ MainErr("DecodeError", TRUE)
    /\ UNCHANGED <<inputs, bapple, counter, SYNC_COUNTER, STOP, clocks, position,
                   passes, history, lastTick>>

\* A plain frame that also reads STOP before it advances.
Increment_ReadsStop ==
    /\ pc = "advance"
    /\ counter % ResyncInterval # 0
    /\ counter' = counter + 1
    /\ pc' = IF STOP THEN "stopcheck" ELSE "loop"
    /\ reads' = reads \cup {"STOP"}
    /\ UNCHANGED <<inputs, bapple, SYNC_COUNTER, STOP, clocks, sink, position, cursor,
                   result, exitStatus, passes, displays, frame, sinceStop, lastTick>>

\* 126-127
Increment ==
    /\ pc = "advance"
    /\ ~is_multiple_of(counter, ResyncInterval)
    /\ counter' = counter + 1
    /\ pc' = "loop"
    /\ UNCHANGED <<inputs, bapple, SYNC_COUNTER, STOP, clocks, sink, position, cursor,
                   result, exitStatus, passes, history, lastTick>>

\* 128-131
AudioResync ==
    /\ pc = "advance"
    /\ is_multiple_of(counter, ResyncInterval)
    /\ has_audio
    /\ counter' = get_pos(position, audio, length)
    /\ pc' = "stopcheck"
    /\ reads' = reads \cup {"position"}
    /\ UNCHANGED <<inputs, bapple, SYNC_COUNTER, STOP, clocks, sink, position, cursor,
                   result, exitStatus, passes, displays, frame, sinceStop, lastTick>>

\* A resync that never steps back: the larger of the counter and the clock.
backup_resync_Max ==
    /\ pc = "advance"
    /\ counter % ResyncInterval = 0
    /\ ~has_audio
    /\ counter' = IF SYNC_COUNTER > counter THEN SYNC_COUNTER ELSE counter
    /\ pc' = "stopcheck"
    /\ reads' = reads \cup {"SYNC_COUNTER"}
    /\ UNCHANGED <<inputs, bapple, SYNC_COUNTER, STOP, clocks, sink, position, cursor,
                   result, exitStatus, passes, displays, frame, sinceStop, lastTick>>

\* The value loaded from the clock dropped: the counter stays where it is.
backup_resync_Dropped ==
    /\ pc = "advance"
    /\ counter % ResyncInterval = 0
    /\ ~has_audio
    /\ counter' = counter
    /\ pc' = "stopcheck"
    /\ reads' = reads \cup {"SYNC_COUNTER"}
    /\ UNCHANGED <<inputs, bapple, SYNC_COUNTER, STOP, clocks, sink, position, cursor,
                   result, exitStatus, passes, displays, frame, sinceStop, lastTick>>

\* 135-136, 170-172
backup_resync ==
    /\ pc = "advance"
    /\ is_multiple_of(counter, ResyncInterval)
    /\ ~has_audio
    /\ counter' = SYNC_COUNTER
    /\ pc' = "stopcheck"
    /\ reads' = reads \cup {"SYNC_COUNTER"}
    /\ UNCHANGED <<inputs, bapple, SYNC_COUNTER, STOP, clocks, sink, position, cursor,
                   result, exitStatus, passes, displays, frame, sinceStop, lastTick>>

\* A stop reported as success: play returns Ok(()) when it reads STOP as set.
StopSeen_Success ==
    /\ pc = "stopcheck"
    /\ STOP
    /\ result' = "Ok"
    /\ sink' = FALSE
    /\ IF args.loop
       THEN pc' = "play" /\ exitStatus' = exitStatus /\ cursor' = cursor
       ELSE pc' = "exited" /\ exitStatus' = 0 /\ cursor' = show_cursor(cursor)
    /\ reads' = reads \cup {"STOP"}
    /\ UNCHANGED <<inputs, bapple, counter, SYNC_COUNTER, STOP, clocks, position,
                   passes, displays, frame, sinceStop, lastTick>>

\* 132-134, 137-139: STOP is read as set.
StopSeen ==
    /\ pc = "stopcheck"
    /\ STOP
    /\ MainErr("Stopped", TRUE)
    /\ reads' = reads \cup {"STOP"}
    /\ UNCHANGED <<inputs, bapple, counter, SYNC_COUNTER, STOP, clocks, position,
                   passes, displays, frame, sinceStop, lastTick>>

\* 132, 137: STOP is read as clear; 142-146 sleep out the frame.
StopClear ==
    /\ pc = "stopcheck"
    /\ ~STOP
    /\ pc' = "loop"
    /\ reads' = reads \cup {"STOP"}
    /\ UNCHANGED <<inputs, bapple, counter, SYNC_COUNTER, STOP, clocks, sink, position,
                   cursor, result, exitStatus, passes, displays, frame, sinceStop, lastTick>>

\* Done without the reset of the counter.
Done_KeepCounter ==
    /\ pc = "loop"
    /\ counter >= length
    /\ cursor' = show_cursor(cursor)
    /\ SYNC_COUNTER' = 0
    /\ lastTick' = 0
    /\ sink' = FALSE
    /\ result' = "Ok"
    /\ IF args.loop
       THEN pc' = "play" /\ exitStatus' = exitStatus
       ELSE pc' = "exited" /\ exitStatus' = 0
    /\ UNCHANGED <<inputs, bapple, counter, STOP, clocks, position, passes, history>>

\* 117, 149-152 and main.rs 27-31: the loop test fails; play returns Ok.
Done ==
    /\ pc = "loop"
    /\ counter >= length
    /\ cursor' = show_cursor(cursor)
    /\ counter' = 0
    /\ SYNC_COUNTER' = 0
    /\ lastTick' = 0
    /\ sink' = FALSE
    /\ result' = "Ok"
    /\ IF args.loop
       THEN pc' = "play" /\ exitStatus' = exitStatus
       ELSE pc' = "exited" /\ exitStatus' = 0
    /\ UNCHANGED <<inputs, bapple, STOP, clocks, position, passes, history>>

(***************************************************************************)
(* The tasks beside the render loop.                                       *)
(***************************************************************************)
\* backup_counter::outside_counter: one more tick while the counter is below length.
ClockTick(p) ==
    /\ pc # "exited"
    /\ p \in clocks
    /\ SYNC_COUNTER < length
    /\ SYNC_COUNTER' = SYNC_COUNTER + 1
    /\ lastTick' = p
    /\ UNCHANGED <<inputs, pc, bapple, counter, STOP, clocks, sink, position, cursor,
                   result, exitStatus, passes, history>>

\* backup_counter::outside_counter: the counter has reached length, the thread ends.
ClockEnd(p) ==
    /\ pc # "exited"
    /\ p \in clocks
    /\ SYNC_COUNTER >= length
    /\ clocks' = clocks \ {p}
    /\ UNCHANGED <<inputs, pc, bapple, counter, SYNC_COUNTER, STOP, sink, position,
                   cursor, result, exitStatus, passes, history, lastTick>>

Tick == \E p \in 1..MaxPasses : ClockTick(p)

TickEnd == \E p \in 1..MaxPasses : ClockEnd(p)

\* The audio device plays on: Sink::get_pos advances, up to the track's duration.
AudioAdvance ==
    /\ pc # "exited"
    /\ sink
    /\ position < audio
    /\ position' = position + 1
    /\ UNCHANGED <<inputs, pc, bapple, counter, SYNC_COUNTER, STOP, clocks, sink, cursor,
                   result, exitStatus, passes, history, lastTick>>

Next ==
    \/ New
    \/ ArgsRejected
    \/ NewFails
    \/ ApplyArgs
    \/ ctrl_c
    \/ PlayFrametimeZero
    \/ PlayStreamError
    \/ PlayAudioError
    \/ PlayStart
    \/ Display
    \/ DisplayFails
    \/ Increment
    \/ AudioResync
    \/ backup_resync
    \/ StopSeen
    \/ StopClear
    \/ Done
    \/ Tick
    \/ TickEnd
    \/ AudioAdvance

Spec == Init /\ [][Next]_vars

(***************************************************************************)
(* Scheduling.  The main thread and the clock threads are operating-system *)
(* threads whose sleeps are finite: a thread that can take a step          *)
(* eventually takes one.  Ctrl-C and the failures are not forced.          *)
(***************************************************************************)
MainStep ==
    \/ New
    \/ ArgsRejected
    \/ NewFails
    \/ ApplyArgs
    \/ PlayFrametimeZero
    \/ PlayStreamError
    \/ PlayAudioError
    \/ PlayStart
    \/ Display
    \/ DisplayFails
    \/ Increment
    \/ AudioResync
    \/ backup_resync
    \/ StopSeen
    \/ StopClear
    \/ Done

\* Every command line on the short archives, and one pass over the longest
\* Frame Store without audio, which has a resync index beyond 0.
InitFair ==
    \/ InitWith(ShortArchives, ArgsSet)
    \/ InitWith({<<MetadataEntry(33333, 0)>> \o Frames(MaxLen)},
                {a \in AutoArgs : ~a.loop})

SpecFair == InitFair /\ [][Next]_vars /\ WF_vars(MainStep) /\ WF_vars(Tick) /\ WF_vars(AudioAdvance)

InitLoad == InitWith(LoadArchives, LoadArgs)

SpecLoad == InitLoad /\ [][Next]_vars

(***************************************************************************)
(* Properties.                                                             *)
(***************************************************************************)
\* A pass has just returned Ok: the driver is about to play again, or has exited 0.
PassDone == result = "Ok" /\ pc \in {"play", "exited"}

\* A pass without audio over a non-empty Frame Store ended Done, uncancelled.
PlainPassDone == PassDone /\ ~has_audio /\ length > 0 /\ ~STOP

InRenderLoop == pc \in {"loop", "advance", "stopcheck"}

ErrorResults == {"OpenError", "StreamError", "AudioError", "DecodeError", "Stopped"}

\* C1, as claimed: a pass without audio, uncancelled and without a decode error,
\* writes exactly length frames before Done, and on Done the counter is 0.
C1_ExactlyNDisplays == PlainPassDone => (displays = length /\ counter = 0)

\* C1, amended: such a pass writes at least one frame before Done (a resync can
\* repeat or skip frames, so the number need not be length), and on Done the
\* counter is 0.
C1_DoneResetsCounter == PlainPassDone => (displays >= 1 /\ counter = 0)

C1_Witness == PlainPassDone /\ length = MaxLen /\ displays = length /\ counter = 0

\* C2: with looping and no audio, when play is entered again after a pass that
\* completed normally, counter = 0 and SYNC_COUNTER = 0.
C2_NextPassStartsAtZero ==
    (pc = "play" /\ passes >= 1 /\ ~has_audio) => (counter = 0 /\ SYNC_COUNTER = 0)

\* C3: once STOP is set, at most 15 further frames are written before the
\* program stops writing frames.
C3_StopLatency == sinceStop <= ResyncInterval

C3_Witness == result = "Stopped" /\ sinceStop = ResyncInterval

\* C4: in every terminal state of the process the cursor is visible, and the
\* cursor is hidden only while a pass is inside its render loop.
C4_CursorRestored ==
    /\ pc = "exited" => cursor = "visible"
    /\ cursor = "hidden" => InRenderLoop

C4_Witness == pc = "exited" /\ result = "DecodeError" /\ displays > 0 /\ cursor = "visible"

\* C5: with a zero frametime on entry to a pass the process ends with a non-zero
\* status, and no frame was written, the cursor was never hidden, and no
\* fallback clock or audio stream was started.
C5_FrametimeZeroFatal ==
    /\ frametime = 0 =>
         /\ pc \in {"main", "args", "play", "exited"}
         /\ passes = 0 /\ displays = 0
         /\ cursor = "visible"
         /\ clocks = {} /\ ~sink
    /\ (frametime = 0 /\ pc = "exited") => exitStatus # 0
    /\ result = "FrametimeZero" => (frametime = 0 /\ pc = "exited" /\ exitStatus = 1)

C5_Witness ==
    /\ result = "FrametimeZero"
    /\ args.frames_per_second = 0
    /\ \E i \in 1..Len(archive) :
         archive[i].stem = "metadata" /\ archive[i].frametime = 0 /\ archive[i].fps = 0
    /\ Len(compressed_frames) > 0

\* C6, as claimed: every step of the render loop leaves the counter at least as
\* large as it was.
C6_CounterMonotone == [][pc = "advance" => counter' >= counter]_vars

\* C6, amended: a plain increment advances the counter by exactly one; a resync
\* replaces the counter by the timing reference (the Shared Sync Counter, or
\* the rounded audio position), which can be lower than the counter was.
C6_AdvanceOrResync ==
    [][(pc = "advance" /\ pc' # pc) =>
         IF counter % ResyncInterval # 0
         THEN counter' = counter + 1
         ELSE IF has_audio
              THEN 2 * counter' * audio <= 2 * position * length + audio
                   /\ 2 * position * length + audio < 2 * (counter' + 1) * audio
              ELSE counter' = SYNC_COUNTER]_vars

\* A resync has just stepped the counter back.
C6_Witness == pc = "stopcheck" /\ ~has_audio /\ frame = ResyncInterval /\ counter < frame

\* C7: a pass ends Aborted only when STOP was read as set right after a resync,
\* at a frame whose index was a multiple of 15; STOP is never read at another
\* frame; and STOP read as set makes the pass return an error.
C7_AbortOnlyAtResync ==
    /\ [](result = "Stopped" => (STOP /\ frame % ResyncInterval = 0 /\ exitStatus = 1))
    /\ [](pc = "stopcheck" => frame % ResyncInterval = 0)
    /\ [][(pc = "stopcheck" /\ STOP /\ pc' # pc) =>
            (pc' = "exited" /\ result' = "Stopped" /\ exitStatus' = 1)]_vars

C7_Witness == result = "Stopped" /\ frame = ResyncInterval /\ pc = "exited"

\* C8: a pass that ends with an error is not retried, even with looping: the
\* error reaches main, which exits with a non-zero status.
C8_NoRetry == result \in ErrorResults => (pc = "exited" /\ exitStatus # 0)

C8_Witness == args.loop /\ passes = 2 /\ result = "DecodeError" /\ pc = "exited"

\* C9: a nonzero frames_per_second f makes the frametime 1_000_000 / f,
\* truncated, whatever the metadata says; f = 0 leaves the metadata's frametime.
C9_FpsOverride ==
    (pc \notin {"main", "args"} /\ result \notin {"OpenError", "UsageError"}) =>
        frametime = IF args.frames_per_second # 0
                    THEN MicrosPerSecond \div args.frames_per_second
                    ELSE NewFrametime(archive, 0)

C9_Witness ==
    /\ pc = "loop"
    /\ args.frames_per_second = 10
    /\ NewFrametime(archive, 0) = 33333
    /\ frametime = 100000

\* C10: an audio resync sets the counter to position / total * length rounded
\* to the nearest integer (halves away from zero), a value in 0..length that
\* the previous counter does not enter.
C10_AudioResyncRounded ==
    [][(pc = "advance" /\ pc' = "stopcheck" /\ has_audio) =>
         /\ counter' \in 0..length
         /\ (2 * counter' - 1) * audio <= 2 * position * length
         /\ 2 * position * length < (2 * counter' + 1) * audio]_vars

\* A resync on a tie: position / total * length is exactly counter - 1/2.
C10_Witness ==
    /\ pc = "stopcheck" /\ has_audio
    /\ 0 < position /\ position < audio
    /\ 2 * position * length = (2 * counter - 1) * audio

\* Bapple::new has returned Ok: the archive was read.
Loaded == pc # "main" /\ result \notin {"OpenError", "UsageError"}

\* The metadata entries of an archive that set a frametime or an fps.
SettingEntries(s) ==
    {i \in 1..Len(s) : s[i].stem = "metadata" /\ (s[i].frametime # 0 \/ s[i].fps # 0)}

\* C11: a nonzero metadata.frametime is the frametime and goes before fps; fps
\* counts only with frametime zero and gives 1_000_000 / fps (integer division);
\* with both zero the frametime stays what it was (0 if nothing set it).
C11_MetadataFrametime ==
    pc = "args" =>
        frametime =
            IF SettingEntries(archive) = {} THEN 0
            ELSE LET i == CHOOSE k \in SettingEntries(archive) :
                              \A j \in SettingEntries(archive) : j <= k
                 IN  IF archive[i].frametime # 0 THEN archive[i].frametime
                     ELSE MicrosPerSecond \div archive[i].fps

\* Both fields set, and an all-zero record read after it.
C11_Witness ==
    /\ pc = "args"
    /\ Len(archive) >= 2
    /\ archive[1] = MetadataEntry(40000, 7)
    /\ archive[2] = MetadataEntry(0, 0)
    /\ frametime = 40000

\* The positions of the archive whose entry is neither audio nor metadata.
FramePositions(s) == {i \in 1..Len(s) : s[i].stem \notin {"audio", "metadata"}}

C13_AdvancePolicy ==
    /\ []((InRenderLoop /\ displays > 0 /\ frame % ResyncInterval # 0) => reads = {})
    /\ [][(pc = "advance" /\ pc' # pc) =>
            IF counter % ResyncInterval # 0
            THEN counter' = counter + 1 /\ pc' = "loop" /\ reads' = {}
            ELSE /\ pc' = "stopcheck"
                 /\ ~has_audio => (counter' = SYNC_COUNTER /\ reads' = {"SYNC_COUNTER"})
                 /\ has_audio => reads' = {"position"}]_vars

\* The resync at index 0 has replaced the counter by a clock two ticks ahead.
C13_Witness ==
    pc = "stopcheck" /\ ~has_audio /\ frame = 0 /\ counter = 2 /\ SYNC_COUNTER = 2

\* C14: 0 <= counter <= length in every state, and the Frame Store is indexed
\* only below length (audio positions up to the total, a clock that stops at
\* length).
C14_CounterInBounds ==
    /\ 0 <= counter /\ counter <= length
    /\ pc = "advance" => (frame < length /\ frame < Len(compressed_frames))

C14_Witness == pc = "loop" /\ length = MaxLen /\ counter = length /\ frame = length - 1

\* C15, as claimed: the counter is 0 when a pass starts and 0 again when it
\* ends, Done or Aborted.
C15_ResetOnEveryEnd ==
    /\ pc = "play" => counter = 0
    /\ (PassDone \/ result = "Stopped") => counter = 0

\* C15, amended: the counter is 0 when a pass starts and is reset to 0 when a
\* pass ends Done, also before a loop restart; a pass that ends Aborted leaves
\* the counter at the value its last resync gave it.
C15_ResetOnDone ==
    /\ pc \in {"args", "play"} => counter = 0
    /\ (pc = "loop" /\ displays = 0) => counter = 0
    /\ PassDone => counter = 0

\* The second pass of a looping run is about to write its first frame.
C15_Witness == pc = "loop" /\ displays = 0 /\ passes = 2 /\ counter = 0 /\ length > 0

\* C16: a pass spawns a fallback clock exactly when the container has no audio
\* track; with audio no clock exists, SYNC_COUNTER is never read and keeps its
\* value.
C16_ClockIffNoAudio ==
    /\ [](has_audio => (clocks = {} /\ SYNC_COUNTER = 0 /\ "SYNC_COUNTER" \notin reads))
    /\ [][(pc = "play" /\ pc' = "loop") =>
            /\ ~has_audio => passes' \in clocks'
            /\ has_audio => clocks' = clocks]_vars
    /\ [][~(clocks' \subseteq clocks) => (pc = "play" /\ pc' = "loop" /\ ~has_audio)]_vars

C16_Witness == has_audio /\ pc = "stopcheck" /\ reads = {"position"} /\ clocks = {}

\* C18: with looping, SYNC_COUNTER is advanced only by the clock of the running
\* pass, never by a clock left over from a pass that has ended.
C18_OnlyOwnClock ==
    (lastTick # 0 /\ pc # "exited") => (InRenderLoop /\ lastTick = passes)

\* C20: a nonzero frames_per_second that passes validation gives a strictly
\* positive frametime and never the fatal zero-frametime exit.
C20_AcceptedFpsPositive ==
    (Loaded /\ pc # "args"
        /\ args.frames_per_second # 0 /\ validate_fps(args.frames_per_second)) =>
      (frametime > 0 /\ result # "FrametimeZero")

\* C17: under weak fairness of the render loop and of the fallback clock, a
\* pass without audio over a non-empty Frame Store always ends (Done or
\* Aborted): the loop cannot stay at a resync index for ever.
C17_PassTerminates ==
    (pc = "loop" /\ ~has_audio /\ length > 0) ~> (pc \in {"play", "exited"})

\* A pass has ended Done after writing frame 0 several times over.
C17_Witness == PassDone /\ ~has_audio /\ length = 1 /\ displays >= 3 /\ ~STOP

\* C19: with looping, once STOP is set the program eventually stops, for every
\* frame count, the empty Frame Store included.
C19_StopEndsLoop == (STOP /\ args.loop) ~> (pc = "exited")

====
